---- MODULE Spec2Model ----
(***************************************************************************)
(* Diagnostic scripts of Dispatcharr (duplicate episode streams).          *)
(*                                                                         *)
(*   compare_streams.py             find_episodes_with_duplicate_streams,  *)
(*                                  analyze_episode_streams                *)
(*   verify_stream_differences.py   compare_streams, __main__,             *)
(*                                  analyze_dispatcharr_episode            *)
(*   scripts/analyze_provider_raw.py  check_stream_health, analyze_raw_feed*)
(*   test_episode_dedup.py          test_episode_deduplication             *)
(*                                                                         *)
(* One run of one script is one behaviour: `script` names the entry point, *)
(* `pc` the position in it.  The media prober (ffprobe) and the data store *)
(* are external: what a probe answers is chosen when the probe is made.    *)
(***************************************************************************)
EXTENDS Integers, Sequences, FiniteSets, TLC

VARIABLES
    script,          \* entry point of this run
    pc,              \* position in the script
    out,             \* what was printed, in order (message tags)
    ret,             \* <<>> until the function returns, then <<value>>
    argv,            \* sys.argv of verify_stream_differences.py
    stdin,           \* lines still unread on standard input
    episode_exists,  \* does Episode.objects.get(uuid=...) find the episode
    relations,       \* the M3UEpisodeRelation rows the script's query returns
    stream_urls,     \* zip(stream_ids, stream_urls) given to compare_streams
    i,               \* number of loop items already handled
    results,         \* the dict `results`, in insertion order
    probed,          \* stream ids handed to ffprobe_stream, in order
    probeOut,        \* what ffprobe answered for each of them, in order
    verdict,         \* "none", "identical" or "different"
    compared,        \* the comparisons made: <<baseline id, stream id>>
    tolerance100,    \* bitrate tolerance applied, in 1/100 bit/s; -1: none
    \* the data store (the web application's tables)
    db_accounts,     \* M3UAccount rows: [id, is_active, account_type]
    db_series,       \* Series rows: [id, name]
    db_episodes,     \* Episode rows: [id, series, season_number, episode_number]
    db_relations,    \* M3UEpisodeRelation rows: [m3u_account, stream_id, episode]
    db_before,       \* <<db_series, db_episodes, db_relations>> when the run began
    \* compare_streams.py: find_episodes_with_duplicate_streams
    accounts_left,   \* active accounts the loop has not visited yet
    episodes_by_account,  \* the dict returned: [account, episode_ids], in order
    \* test_episode_dedup.py: test_episode_deduplication
    account,         \* <<>> or <<id of the account used>>
    series,          \* <<>> or <<id of the series used>>
    initial_episode_count,
    initial_relation_count,
    episodes_created,
    relations_created,
    \* scripts/analyze_provider_raw.py: analyze_raw_feed
    feed,            \* what the provider serves: per series, its episode entries
    series_idx,      \* index of the series being looked at
    to_check,        \* streams of the duplicate groups still to be checked
    health,          \* check_stream_health results: [series, stream_id, is_valid]
    duplicates_found,
    \* compare_streams.py: main
    episode_queue,   \* <<account, episode_id>> pairs the two loops have yet to visit
    total_analyzed,
    identical_count,
    different_count

cmpVars == <<argv, stdin, episode_exists, relations, stream_urls, i, results,
             probed, probeOut, verdict, compared, tolerance100>>
dbVars == <<db_accounts, db_series, db_episodes, db_relations, db_before>>
findVars == <<accounts_left, episodes_by_account>>
testVars == <<account, series, initial_episode_count, initial_relation_count,
              episodes_created, relations_created>>
rawVars == <<feed, series_idx, to_check, health, duplicates_found>>
mainVars == <<episode_queue, total_analyzed, identical_count, different_count>>

vars == <<script, pc, out, ret, cmpVars, dbVars, findVars, testVars, rawVars, mainVars>>

-----------------------------------------------------------------------------
(* Bounds and sample values *)

MaxStreams == 3      \* streams of one episode / URLs of one comparison
MaxLines == 3        \* lines on standard input
MaxEpisodes == 11    \* episodes the first account has streams for
MaxCount == 3        \* streams one account has for one episode
MaxFeedEpisodes == 3 \* episode entries of the first series of the provider's feed

Widths == {1280, 1920}
HeightOf(w) == IF w = 1920 THEN 1080 ELSE 720
BitRates == {1000000, 1050000, 1100000, 1100001}
Sizes == {0, 1000, 1050}

Abs(n) == IF n < 0 THEN -n ELSE n

\* Python's None
None == [none |-> TRUE]

-----------------------------------------------------------------------------
(* ffprobe and ffprobe_stream *)

\* What one run of the ffprobe process gives: whether it ran into the timeout,
\* its return code and what it wrote: whether json.loads accepts the text, the
\* streams it lists, format.bit_rate (with whether int() accepts its text),
\* format.size and format.duration.
VideoStream(w, codec_name, r_frame_rate) ==
    [codec_type |-> "video", width |-> w, height |-> HeightOf(w),
     codec_name |-> codec_name, r_frame_rate |-> r_frame_rate, channels |-> 0]

AudioStream(codec_name, channels) ==
    [codec_type |-> "audio", width |-> 0, height |-> 0,
     codec_name |-> codec_name, r_frame_rate |-> << 0, 0 >>, channels |-> channels]

ProbeFailed ==
    [timed_out |-> FALSE, returncode |-> 1, parses |-> TRUE, streams |-> <<>>,
     bit_rate |-> 0, bit_rate_is_number |-> TRUE, size |-> 0, duration |-> 0]

AnswersWithSizes(sizes) ==
    {ProbeFailed} \cup
    { [timed_out |-> FALSE, returncode |-> 0, parses |-> TRUE,
       streams |-> << VideoStream(w, "h264", << 25, 1 >>) >>,
       bit_rate |-> b, bit_rate_is_number |-> TRUE, size |-> s, duration |-> 3600] :
      w \in Widths, b \in BitRates, s \in sizes }

ProbeAnswers == AnswersWithSizes(Sizes)

\* verify_stream_differences.py never reads format.size: one size is sampled
VerifyProbeAnswers == AnswersWithSizes({1000})

\* answers that differ in codec, frame rate, duration and audio as well
FieldAnswers ==
    {ProbeFailed} \cup
    { [timed_out |-> FALSE, returncode |-> 0, parses |-> TRUE,
       streams |-> IF rich
                   THEN << VideoStream(w, "h264", << 25, 1 >>), AudioStream("aac", 2) >>
                   ELSE << VideoStream(w, "hevc", << 30, 1 >>) >>,
       bit_rate |-> b, bit_rate_is_number |-> TRUE, size |-> 1000,
       duration |-> IF rich THEN 3600 ELSE 1800] :
      w \in Widths, b \in {1000000, 1100000, 1100001}, rich \in BOOLEAN }

\* what ffprobe may answer for a URL
VerifyAnswersAt(url) == IF url = << "v" >> THEN FieldAnswers ELSE VerifyProbeAnswers

\* f"{width}x{height}"
ResolutionString(w, h) == ToString(w) \o "x" \o ToString(h)

\* mutant: a later stream of the type replaces the one found first
FirstOfType_last(streams, type, k) ==
    LET found == { j \in k..Len(streams) : streams[j].codec_type = type } IN
    IF found = {} THEN None
    ELSE streams[CHOOSE j \in found : \A l \in found : l <= j]

\* the first stream of the given codec_type, or None
RECURSIVE FirstOfType(_, _, _)
FirstOfType(streams, type, k) ==
    IF k > Len(streams) THEN None
    ELSE IF streams[k].codec_type = type THEN streams[k]
    ELSE FirstOfType(streams, type, k + 1)

\* an exception raised inside the try block
Raised == [raised |-> TRUE]

\* float(Fraction("n/d")), eval("n/d"): frames per second, kept in 1/1000
FpsOf(r_frame_rate) == (r_frame_rate[1] * 1000) \div r_frame_rate[2]

\* metadata = {...}; if audio_stream: metadata['audio_codec'] = ...
\* (file_size < 0: the script keeps no file_size)
Metadata(video_stream, audio_stream, answer, file_size) ==
    LET video == [resolution |-> ResolutionString(video_stream.width, video_stream.height),
                  width |-> video_stream.width,
                  height |-> video_stream.height,
                  codec |-> video_stream.codec_name,
                  bitrate |-> answer.bit_rate,
                  duration |-> answer.duration,
                  fps |-> FpsOf(video_stream.r_frame_rate)]
        sized == IF file_size < 0 THEN video
                 ELSE [ f \in DOMAIN video \cup {"file_size"} |->
                          IF f = "file_size" THEN file_size ELSE video[f] ]
    IN IF audio_stream = None THEN sized
       ELSE [ f \in DOMAIN sized \cup {"audio_codec", "audio_channels"} |->
                IF f = "audio_codec" THEN audio_stream.codec_name
                ELSE IF f = "audio_channels" THEN audio_stream.channels
                ELSE sized[f] ]

\* the try block of ffprobe_stream: the value it returns, or Raised
TryProbe(answer, file_size) ==
    IF answer.timed_out THEN Raised               \* subprocess.TimeoutExpired
    ELSE IF answer.returncode # 0 THEN None
    ELSE IF ~answer.parses THEN Raised            \* json.loads
    ELSE LET video_stream == FirstOfType(answer.streams, "video", 1)
             audio_stream == FirstOfType(answer.streams, "audio", 1)
         IN IF video_stream = None THEN None
            ELSE IF ~answer.bit_rate_is_number THEN Raised       \* int(...)
            ELSE IF video_stream.r_frame_rate[2] = 0 THEN Raised \* ZeroDivisionError
            ELSE Metadata(video_stream, audio_stream, answer, file_size)

\* mutant: no except clause, the exception reaches the caller
OrNone_escapes(value) == value

\* except subprocess.TimeoutExpired, except Exception: return None
OrNone(value) == IF value = Raised THEN None ELSE value

\* what ffprobe_stream prints or logs on its way out ("" when it returns metadata)
ProbeMessage(answer) ==
    IF answer.timed_out THEN "ffprobe_timeout"
    ELSE IF answer.returncode # 0 THEN "ffprobe_failed"
    ELSE IF ~answer.parses THEN "ffprobe_error"
    ELSE IF FirstOfType(answer.streams, "video", 1) = None THEN "no_video_stream"
    ELSE IF TryProbe(answer, -1) = Raised THEN "ffprobe_error"
    ELSE ""

\* compare_streams.py: ffprobe_stream keeps format.size as file_size
ffprobe_stream(answer) == OrNone(TryProbe(answer, answer.size))

\* verify_stream_differences.py: ffprobe_stream has no file_size
verify_ffprobe_stream(answer) == OrNone(TryProbe(answer, -1))

\* results[key] = value: a new key goes last, an old key keeps its place
RECURSIVE DictSet(_, _, _)
DictSet(d, key, value) ==
    IF d = <<>> THEN << [stream_id |-> key, metadata |-> value] >>
    ELSE IF Head(d).stream_id = key
         THEN << [stream_id |-> key, metadata |-> value] >> \o Tail(d)
         ELSE << Head(d) >> \o DictSet(Tail(d), key, value)

\* {k: v for k, v in results.items() if v is not None}
RECURSIVE ValidResults(_)
ValidResults(d) ==
    IF d = <<>> THEN <<>>
    ELSE IF Head(d).metadata = None THEN ValidResults(Tail(d))
         ELSE << Head(d) >> \o ValidResults(Tail(d))

-----------------------------------------------------------------------------
(* The equivalence rules *)

TolerancePercent == 5          \* first['bitrate'] * 0.05, first['file_size'] * 0.05
BitrateToleranceBps == 100000  \* "100kbps tolerance"

\* mutant: the last valid result taken as the baseline
Baseline_last(valid) == valid[Len(valid)]

\* list(valid_results.values())[0]; the key is kept beside the value, to name
\* the baseline in `compared`
Baseline(valid) == valid[1]

\* compare_streams.py: the tolerances, in hundredths.  The code compares an
\* integer difference with the float first[...] * 0.05; for integers below
\* 2^50 that float lies within 1/100 of value/20 and is exact when value/20 is
\* an integer, so  d > value * 0.05  is  d * 100 > value * 5.
BitrateTolerance100(first) == first.metadata.bitrate * TolerancePercent
FileSizeTolerance100(first) == first.metadata.file_size * TolerancePercent

\* mutant: a difference of exactly 5% already counts as different
Differs_strict(metadata, first) ==
    \/ metadata.resolution # first.metadata.resolution
    \/ Abs(metadata.bitrate - first.metadata.bitrate) * 100 >= BitrateTolerance100(first)
    \/ Abs(metadata.file_size - first.metadata.file_size) * 100 >= FileSizeTolerance100(first)

\* compare_streams.py: one pass of the loop body sets all_identical = False
Differs(metadata, first) ==
    \/ metadata.resolution # first.metadata.resolution
    \/ Abs(metadata.bitrate - first.metadata.bitrate) * 100 > BitrateTolerance100(first)
    \/ Abs(metadata.file_size - first.metadata.file_size) * 100 > FileSizeTolerance100(first)

\* verify_stream_differences.py: the tolerance does not depend on `first`
verify_BitrateTolerance100(first) == BitrateToleranceBps * 100

\* mutant: a difference of exactly 100 kbps already counts as different
verify_Differs_strict(metadata, first) ==
    \/ metadata.resolution # first.metadata.resolution
    \/ Abs(metadata.bitrate - first.metadata.bitrate) * 100 >= verify_BitrateTolerance100(first)

\* mutant: another codec also counts as different
verify_Differs_codec(metadata, first) ==
    \/ metadata.resolution # first.metadata.resolution
    \/ Abs(metadata.bitrate - first.metadata.bitrate) * 100 > verify_BitrateTolerance100(first)
    \/ metadata.codec # first.metadata.codec

verify_Differs(metadata, first) ==
    \/ metadata.resolution # first.metadata.resolution
    \/ Abs(metadata.bitrate - first.metadata.bitrate) * 100 > verify_BitrateTolerance100(first)

\* compare_streams.py: for metadata in valid_results.values(): ... break
RECURSIVE IdenticalLoop(_, _, _)
IdenticalLoop(valid, first, k) ==
    IF k > Len(valid) THEN [all_identical |-> TRUE, compared |-> <<>>]
    ELSE LET pair == << first.stream_id, valid[k].stream_id >> IN
         IF Differs(valid[k].metadata, first)
         THEN [all_identical |-> FALSE, compared |-> << pair >>]
         ELSE LET rest == IdenticalLoop(valid, first, k + 1) IN
              [all_identical |-> rest.all_identical,
               compared |-> << pair >> \o rest.compared]

\* verify_stream_differences.py: for stream_id, metadata in valid_results.items()
RECURSIVE verify_IdenticalLoop(_, _, _)
verify_IdenticalLoop(valid, first, k) ==
    IF k > Len(valid) THEN [all_identical |-> TRUE, compared |-> <<>>]
    ELSE LET pair == << first.stream_id, valid[k].stream_id >> IN
         IF verify_Differs(valid[k].metadata, first)
         THEN [all_identical |-> FALSE, compared |-> << pair >>]
         ELSE LET rest == verify_IdenticalLoop(valid, first, k + 1) IN
              [all_identical |-> rest.all_identical,
               compared |-> << pair >> \o rest.compared]

-----------------------------------------------------------------------------
(* compare_streams.py: analyze_episode_streams(account, episode) *)

\* mutant: the loop stops one relation early
AnalyzeLoopDone_early == i >= Len(relations) - 1

\* `for rel in relations` has run out
AnalyzeLoopDone == i = Len(relations)

\* mutant: one valid result is taken to be enough
NotEnoughValid_one(valid_results) == Len(valid_results) < 1

\* if len(valid_results) < 2
NotEnoughValid(valid_results) == Len(valid_results) < 2

\* one pass of `for rel in relations`
AnalyzeProbe ==
    /\ script = "analyze_episode_streams"
    /\ pc = "probe"
    /\ ~AnalyzeLoopDone
    /\ i < Len(relations)
    /\ LET rel == relations[i + 1] IN
       IF ~rel.has_url
       THEN /\ out' = Append(out, "could_not_generate_url")
            /\ UNCHANGED <<results, probed, probeOut>>
       ELSE \E answer \in ProbeAnswers :
              /\ results' = DictSet(results, rel.stream_id, ffprobe_stream(answer))
              /\ probed' = Append(probed, rel.stream_id)
              /\ probeOut' = Append(probeOut, answer)
              /\ out' = out
    /\ i' = i + 1
    /\ UNCHANGED <<mainVars, script, pc, ret, argv, stdin, episode_exists, relations,
                   stream_urls, verdict, compared, tolerance100>>
    /\ UNCHANGED <<dbVars, findVars, testVars, rawVars>>

\* from "Compare results" to the return
AnalyzeCompare ==
    /\ script = "analyze_episode_streams"
    /\ pc = "probe"
    /\ AnalyzeLoopDone
    /\ LET valid_results == ValidResults(results) IN
       IF NotEnoughValid(valid_results)
       THEN /\ out' = Append(out, "not_enough_valid_streams")
            /\ ret' = << FALSE >>
            /\ UNCHANGED <<verdict, compared, tolerance100>>
       ELSE LET first == Baseline(valid_results)
                loop == IdenticalLoop(valid_results, first, 1) IN
            /\ compared' = loop.compared
            /\ tolerance100' = BitrateTolerance100(first)
            /\ IF loop.all_identical
               THEN /\ verdict' = "identical"
                    /\ out' = Append(out, "all_streams_identical")
                    /\ ret' = << TRUE >>
               ELSE /\ verdict' = "different"
                    /\ out' = Append(out, "streams_different")
                    /\ ret' = << FALSE >>
    /\ pc' = "done"
    /\ UNCHANGED <<mainVars, script, argv, stdin, episode_exists, relations, stream_urls,
                   i, results, probed, probeOut>>
    /\ UNCHANGED <<dbVars, findVars, testVars, rawVars>>

-----------------------------------------------------------------------------
(* verify_stream_differences.py: compare_streams(stream_urls, stream_ids) *)

\* if len(valid_results) < 2
verify_NotEnoughValid(valid_results) == Len(valid_results) < 2

\* one pass of `for stream_id, url in zip(stream_ids, stream_urls)`
VerifyProbe ==
    /\ script \in {"compare_streams", "verify_main"}
    /\ pc = "probe"
    /\ i < Len(stream_urls)
    /\ \E answer \in VerifyAnswersAt(stream_urls[i + 1].url) :
         /\ results' = DictSet(results, stream_urls[i + 1].stream_id,
                              verify_ffprobe_stream(answer))
         /\ probed' = Append(probed, stream_urls[i + 1].stream_id)
         /\ probeOut' = Append(probeOut, answer)
    /\ i' = i + 1
    /\ UNCHANGED <<mainVars, script, pc, out, ret, argv, stdin, episode_exists, relations,
                   stream_urls, verdict, compared, tolerance100>>
    /\ UNCHANGED <<dbVars, findVars, testVars, rawVars>>

\* from "Compare results" to the return
VerifyCompare ==
    /\ script \in {"compare_streams", "verify_main"}
    /\ pc = "probe"
    /\ i = Len(stream_urls)
    /\ LET valid_results == ValidResults(results) IN
       IF results = <<>>
       THEN /\ out' = Append(out, "no_streams_could_be_analyzed")
            /\ UNCHANGED <<verdict, compared, tolerance100>>
       ELSE IF verify_NotEnoughValid(valid_results)
       THEN /\ out' = Append(out, "not_enough_valid_streams")
            /\ UNCHANGED <<verdict, compared, tolerance100>>
       ELSE LET first_stream == Baseline(valid_results)
                loop == verify_IdenticalLoop(valid_results, first_stream, 1) IN
            /\ compared' = loop.compared
            /\ tolerance100' = verify_BitrateTolerance100(first_stream)
            /\ IF loop.all_identical
               THEN /\ verdict' = "identical"
                    /\ out' = Append(out, "all_streams_identical")
               ELSE /\ verdict' = "different"
                    /\ out' = Append(out, "streams_different")
    /\ ret' = << results >>
    /\ pc' = "done"
    /\ UNCHANGED <<mainVars, script, argv, stdin, episode_exists, relations, stream_urls,
                   i, results, probed, probeOut>>
    /\ UNCHANGED <<dbVars, findVars, testVars, rawVars>>

-----------------------------------------------------------------------------
(* verify_stream_differences.py: __main__ and analyze_dispatcharr_episode *)

Whitespace == {" ", "\n"}

\* line.strip(), a line being the sequence of its characters
RECURSIVE LStrip(_)
LStrip(line) ==
    IF line # <<>> /\ Head(line) \in Whitespace THEN LStrip(Tail(line)) ELSE line

RECURSIVE RStrip(_)
RStrip(line) ==
    IF line # <<>> /\ line[Len(line)] \in Whitespace
    THEN RStrip(SubSeq(line, 1, Len(line) - 1))
    ELSE line

Strip(line) == RStrip(LStrip(line))

\* for line in sys.stdin: url = line.strip(); if url: stream_urls.append(url)
RECURSIVE ReadUrls(_)
ReadUrls(lines) ==
    IF lines = <<>> THEN <<>>
    ELSE LET url == Strip(Head(lines)) IN
         IF url # <<>> THEN << url >> \o ReadUrls(Tail(lines))
         ELSE ReadUrls(Tail(lines))

\* stream_ids = [f"Stream {i+1}" for i in range(len(stream_urls))], zipped
LabelUrls(urls) ==
    [k \in 1..Len(urls) |-> [stream_id |-> k, url |-> urls[k]]]

\* the relations that have a URL, in order (stream_urls / stream_ids)
RECURSIVE UrlsOfRelations(_)
UrlsOfRelations(rels) ==
    IF rels = <<>> THEN <<>>
    ELSE IF Head(rels).has_url
         THEN << [stream_id |-> Head(rels).stream_id, url |-> << "u" >>] >>
              \o UrlsOfRelations(Tail(rels))
         ELSE UrlsOfRelations(Tail(rels))

\* len(sys.argv) > 1 is false: the usage text
MainUsage ==
    /\ script = "verify_main"
    /\ pc = "main"
    /\ ~(Len(argv) > 1)
    /\ out' = Append(out, "usage")
    /\ pc' = "done"
    /\ UNCHANGED <<mainVars, script, ret, argv, stdin, episode_exists, relations,
                   stream_urls, i, results, probed, probeOut, verdict, compared,
                   tolerance100>>
    /\ UNCHANGED <<dbVars, findVars, testVars, rawVars>>

\* --episode without a uuid: sys.exit(1)
MainEpisodeUsage ==
    /\ script = "verify_main"
    /\ pc = "main"
    /\ Len(argv) > 1
    /\ argv[2] = "--episode"
    /\ Len(argv) < 3
    /\ out' = Append(out, "usage_episode")
    /\ pc' = "exit_1"
    /\ UNCHANGED <<mainVars, script, ret, argv, stdin, episode_exists, relations,
                   stream_urls, i, results, probed, probeOut, verdict, compared,
                   tolerance100>>
    /\ UNCHANGED <<dbVars, findVars, testVars, rawVars>>

\* --episode <uuid>: analyze_dispatcharr_episode up to its call of compare_streams
MainEpisode ==
    /\ script = "verify_main"
    /\ pc = "main"
    /\ Len(argv) > 1
    /\ argv[2] = "--episode"
    /\ ~(Len(argv) < 3)
    /\ IF ~episode_exists
       THEN /\ out' = Append(out, "episode_not_found")
            /\ pc' = "done"
            /\ UNCHANGED stream_urls
       ELSE IF relations = <<>>
       THEN /\ out' = Append(out, "no_relations_found")
            /\ pc' = "done"
            /\ UNCHANGED stream_urls
       ELSE IF UrlsOfRelations(relations) # <<>>
       THEN /\ stream_urls' = UrlsOfRelations(relations)
            /\ pc' = "probe"
            /\ out' = out
       ELSE /\ out' = Append(out, "no_valid_stream_urls")
            /\ pc' = "done"
            /\ UNCHANGED stream_urls
    /\ UNCHANGED <<mainVars, script, ret, argv, stdin, episode_exists, relations,
                   i, results, probed, probeOut, verdict, compared, tolerance100>>
    /\ UNCHANGED <<dbVars, findVars, testVars, rawVars>>

\* any other first argument: manual URL comparison from standard input
MainManual ==
    /\ script = "verify_main"
    /\ pc = "main"
    /\ Len(argv) > 1
    /\ argv[2] # "--episode"
    /\ stdin' = <<>>
    /\ LET urls == ReadUrls(stdin) IN
       IF Len(urls) < 2
       THEN /\ out' = out \o << "manual_mode", "need_at_least_2_urls" >>
            /\ pc' = "exit_1"
            /\ UNCHANGED stream_urls
       ELSE /\ out' = Append(out, "manual_mode")
            /\ stream_urls' = LabelUrls(urls)
            /\ pc' = "probe"
    /\ UNCHANGED <<mainVars, script, ret, argv, episode_exists, relations,
                   i, results, probed, probeOut, verdict, compared, tolerance100>>
    /\ UNCHANGED <<dbVars, findVars, testVars, rawVars>>

-----------------------------------------------------------------------------
(* Runs of the two comparison scripts *)

\* the rows of one query: distinct stream ids, each with or without a URL
RelationRows ==
    UNION { { [k \in 1..n |-> [stream_id |-> k, has_url |-> f[k]]] :
              f \in [1..n -> BOOLEAN] } : n \in 0..MaxStreams }

UrlLists == { [k \in 1..n |-> [stream_id |-> k, url |-> << "u" >>]] : n \in 0..MaxStreams }

Lines == { << "u", "\n" >>, << " ", "u", " ", "\n" >>, << "\n" >> }

StdinSamples == UNION { [1..n -> Lines] : n \in 0..MaxLines }

Program == "verify_stream_differences.py"

\* the local variables of the comparison functions, before they run
InitLocals ==
    /\ out = <<>>
    /\ ret = <<>>
    /\ i = 0
    /\ results = <<>>
    /\ probed = <<>>
    /\ probeOut = <<>>
    /\ verdict = "none"
    /\ compared = <<>>
    /\ tolerance100 = -1

\* the variables of the scripts that are not running
IdleCompare ==
    /\ argv = <<>>
    /\ stdin = <<>>
    /\ episode_exists = FALSE
    /\ relations = <<>>
    /\ stream_urls = <<>>

IdleFind == accounts_left = {} /\ episodes_by_account = <<>>

IdleTest ==
    /\ account = <<>>
    /\ series = <<>>
    /\ initial_episode_count = 0
    /\ initial_relation_count = 0
    /\ episodes_created = 0
    /\ relations_created = 0

IdleRaw ==
    /\ feed = <<>>
    /\ series_idx = 0
    /\ to_check = <<>>
    /\ health = <<>>
    /\ duplicates_found = 0

IdleMain ==
    /\ episode_queue = <<>>
    /\ total_analyzed = 0
    /\ identical_count = 0
    /\ different_count = 0

\* a data store in which one episode of one account has the given rows
InitDbOfRows(rows) ==
    /\ db_accounts = { [id |-> 1, is_active |-> TRUE, account_type |-> "XC"] }
    /\ db_series = { [id |-> 1, name |-> "Other Show"] }
    /\ db_episodes = { [id |-> 1, series |-> 1, season_number |-> 1, episode_number |-> 1] }
    /\ db_relations = { [m3u_account |-> 1, stream_id |-> rows[k].stream_id, episode |-> 1] :
                        k \in 1..Len(rows) }
    /\ db_before = << db_series, db_episodes, db_relations >>

InitAnalyze ==
    /\ script = "analyze_episode_streams"
    /\ pc = "probe"
    /\ relations \in RelationRows
    /\ InitDbOfRows(relations)
    /\ episode_exists = TRUE
    /\ argv = <<>>
    /\ stdin = <<>>
    /\ stream_urls = <<>>

InitCompareStreams ==
    /\ script = "compare_streams"
    /\ pc = "probe"
    /\ stream_urls \in UrlLists
    /\ relations = <<>>
    /\ InitDbOfRows(relations)
    /\ episode_exists = FALSE
    /\ argv = <<>>
    /\ stdin = <<>>

InitVerifyMain ==
    /\ script = "verify_main"
    /\ pc = "main"
    /\ stream_urls = <<>>
    /\ \/ /\ argv \in { << Program >>, << Program, "manual" >> }
          /\ stdin \in StdinSamples
          /\ relations = <<>>
          /\ episode_exists = FALSE
       \/ /\ argv \in { << Program, "--episode" >>, << Program, "--episode", "uuid" >> }
          /\ stdin = <<>>
          /\ \/ episode_exists = FALSE /\ relations = <<>>
             \/ episode_exists = TRUE /\ relations \in RelationRows
    /\ InitDbOfRows(relations)

Init ==
    /\ InitLocals
    /\ IdleMain
    /\ (InitAnalyze \/ InitCompareStreams \/ InitVerifyMain)
    /\ IdleFind
    /\ IdleTest
    /\ IdleRaw

Next ==
    \/ AnalyzeProbe
    \/ AnalyzeCompare
    \/ VerifyProbe
    \/ VerifyCompare
    \/ MainUsage
    \/ MainEpisodeUsage
    \/ MainEpisode
    \/ MainManual

Spec == Init /\ [][Next]_vars

-----------------------------------------------------------------------------
(* compare_streams.py: find_episodes_with_duplicate_streams() *)

DuplicateLimit == 10   \* duplicate_episodes[:10]

\* seq[:n]
Take(seq, n) == SubSeq(seq, 1, IF Len(seq) < n THEN Len(seq) ELSE n)

\* M3UAccount.objects.filter(is_active=True)
ActiveAccounts(table) == { a.id : a \in { x \in table : x.is_active } }

\* .filter(m3u_account=account).values('episode').annotate(stream_count=Count('id'))
StreamCount(table, acc, episode) ==
    Cardinality({ r \in table : r.m3u_account = acc /\ r.episode = episode })

EpisodesOf(table, acc) == { r.episode : r \in { x \in table : x.m3u_account = acc } }

\* mutant: every episode of the account passes the filter
IsDuplicate_any(stream_count) == stream_count >= 1

\* .filter(stream_count__gt=1)
IsDuplicate(stream_count) == stream_count > 1

\* .order_by('-stream_count'): the data store orders equal counts as it likes;
\* two of its choices are modelled, by ascending and by descending episode id
RECURSIVE OrderByCountDesc(_, _, _)
OrderByCountDesc(episodes, stream_count, tie) ==
    IF episodes = {} THEN <<>>
    ELSE LET top == { e \in episodes :
                        \A f \in episodes : stream_count[f] <= stream_count[e] }
             pick == IF tie = "asc"
                     THEN CHOOSE e \in top : \A f \in top : e <= f
                     ELSE CHOOSE e \in top : \A f \in top : e >= f
         IN << pick >> \o OrderByCountDesc(episodes \ {pick}, stream_count, tie)

\* the queryset duplicate_episodes, as the list of its episode ids
DuplicateEpisodes(table, acc, tie) ==
    LET rows == { r \in table : r.m3u_account = acc }
        stream_count == [ e \in EpisodesOf(rows, acc) |-> StreamCount(rows, acc, e) ]
    IN OrderByCountDesc({ e \in DOMAIN stream_count : IsDuplicate(stream_count[e]) },
                        stream_count, tie)

\* accounts = ...filter(is_active=True); if not accounts.exists(): return {}
FindStart ==
    /\ script = "find_episodes_with_duplicate_streams"
    /\ pc = "start"
    /\ IF ActiveAccounts(db_accounts) = {}
       THEN /\ out' = Append(out, "no_active_accounts")
            /\ ret' = << <<>> >>
            /\ pc' = "done"
            /\ UNCHANGED accounts_left
       ELSE /\ accounts_left' = ActiveAccounts(db_accounts)
            /\ pc' = "scan"
            /\ UNCHANGED <<out, ret>>
    /\ UNCHANGED <<mainVars, script, episodes_by_account, cmpVars, dbVars, testVars, rawVars>>

\* one pass of `for account in accounts`
FindAccount ==
    /\ script = "find_episodes_with_duplicate_streams"
    /\ pc = "scan"
    /\ \E acc \in accounts_left, tie \in {"asc", "desc"} :
         LET duplicate_episodes == DuplicateEpisodes(db_relations, acc, tie) IN
         /\ accounts_left' = accounts_left \ {acc}
         /\ IF duplicate_episodes # <<>>
            THEN /\ episodes_by_account' =
                      Append(episodes_by_account,
                             [account |-> acc,
                              episode_ids |-> Take(duplicate_episodes, DuplicateLimit)])
                 /\ out' = Append(out, "found_episodes_with_multiple_streams")
            ELSE /\ out' = Append(out, "no_episodes_with_multiple_streams")
                 /\ UNCHANGED episodes_by_account
    /\ UNCHANGED <<mainVars, script, pc, ret, cmpVars, dbVars, testVars, rawVars>>

\* return episodes_by_account
FindReturn ==
    /\ script = "find_episodes_with_duplicate_streams"
    /\ pc = "scan"
    /\ accounts_left = {}
    /\ ret' = << episodes_by_account >>
    /\ pc' = "done"
    /\ UNCHANGED <<mainVars, script, out, accounts_left, episodes_by_account,
                   cmpVars, dbVars, testVars, rawVars>>

\* the stream counts of the episodes 1..n of one account, in ascending order:
\* the episode ids carry no meaning, so every table is one of these renamed
RECURSIVE SortedCounts(_, _)
SortedCounts(n, lowest) ==
    IF n = 0 THEN { <<>> }
    ELSE UNION { { << c >> \o rest : rest \in SortedCounts(n - 1, c) } :
                 c \in lowest..MaxCount }

\* the relation rows of an account that has counts[e] streams for episode e
RowsOf(acc, counts) ==
    UNION { { [m3u_account |-> acc, stream_id |-> 10 * e + k, episode |-> e] :
              k \in 1..counts[e] } : e \in 1..Len(counts) }

InitFind ==
    /\ script = "find_episodes_with_duplicate_streams"
    /\ pc = "start"
    /\ \E active1 \in BOOLEAN, active2 \in BOOLEAN :
         db_accounts = { [id |-> 1, is_active |-> active1, account_type |-> "XC"],
                         [id |-> 2, is_active |-> active2, account_type |-> "XC"] }
    /\ db_series = { [id |-> 1, name |-> "Other Show"] }
    /\ db_episodes = { [id |-> e, series |-> 1, season_number |-> 1, episode_number |-> e] :
                       e \in 1..MaxEpisodes }
    /\ \E counts1 \in SortedCounts(MaxEpisodes, 1),
          counts2 \in SortedCounts(0, 1) \cup SortedCounts(2, 1) :
         db_relations = RowsOf(1, counts1) \cup RowsOf(2, counts2)
    /\ db_before = << db_series, db_episodes, db_relations >>
    /\ InitLocals
    /\ IdleMain
    /\ IdleCompare
    /\ IdleFind
    /\ IdleTest
    /\ IdleRaw

NextFind == FindStart \/ FindAccount \/ FindReturn

SpecFind == InitFind /\ [][NextFind]_vars

-----------------------------------------------------------------------------
(* test_episode_dedup.py: test_episode_deduplication() *)

\* the series names of the samples that contain "MasterChef", whatever the case
\* of their letters (name__icontains="MasterChef")
icontains_MasterChef(name) == name \in { "MasterChef Junior", "masterchef us" }

MasterChefSeries(table) == { s \in table : icontains_MasterChef(s.name) }

\* mutant: the test series is created whether or not a series was found
MustCreateSeries_always(table) == TRUE

\* series = ...first(); if not series: Series.objects.create(...)
MustCreateSeries(table) == MasterChefSeries(table) = {}

MaxId(table) ==
    IF table = {} THEN 0 ELSE CHOOSE n \in { r.id : r \in table } : \A r \in table : r.id <= n

TestSeriesName == "Test Series for Episode Dedup"

\* mutant: the third entry carries another episode number
episodes_data_mixed ==
    << [id |-> 78025, season |-> 9, episode_num |-> 2],
       [id |-> 78026, season |-> 9, episode_num |-> 2],
       [id |-> 78027, season |-> 9, episode_num |-> 3],
       [id |-> 78028, season |-> 9, episode_num |-> 2],
       [id |-> 78029, season |-> 9, episode_num |-> 2] >>

\* episodes_data: five stream ids, all of them season 9, episode 2
episodes_data ==
    << [id |-> 78025, season |-> 9, episode_num |-> 2],
       [id |-> 78026, season |-> 9, episode_num |-> 2],
       [id |-> 78027, season |-> 9, episode_num |-> 2],
       [id |-> 78028, season |-> 9, episode_num |-> 2],
       [id |-> 78029, season |-> 9, episode_num |-> 2] >>

\* stream_id__in=["78025", "78026", "78027", "78028", "78029"]
TestStreamIds == { 78025, 78026, 78027, 78028, 78029 }

\* Episode.objects.filter(series=series, season_number=9, episode_number=2)
EpisodesS09E02(table, sid) ==
    { e \in table : e.series = sid /\ e.season_number = 9 /\ e.episode_number = 2 }

\* apps/vod/tasks.py is not among the sources: batch_process_episodes is the
\* operation the test describes.  Entry by entry: the Episode of (series,
\* season, episode_num) is looked up and created if there is none; the
\* relation of (account, stream id) is made to refer to it, created if there
\* is none.
RECURSIVE batch_process_episodes(_, _, _, _, _)
batch_process_episodes(acc, sid, data, episodes, rels) ==
    IF data = <<>> THEN [episodes |-> episodes, relations |-> rels]
    ELSE LET entry == Head(data)
             found == { e \in episodes : /\ e.series = sid
                                         /\ e.season_number = entry.season
                                         /\ e.episode_number = entry.episode_num }
             episode == IF found # {}
                        THEN CHOOSE e \in found : \A f \in found : e.id <= f.id
                        ELSE [id |-> MaxId(episodes) + 1, series |-> sid,
                              season_number |-> entry.season,
                              episode_number |-> entry.episode_num]
             others == { r \in rels : ~(r.m3u_account = acc /\ r.stream_id = entry.id) }
         IN batch_process_episodes(
                acc, sid, Tail(data),
                episodes \cup {episode},
                others \cup { [m3u_account |-> acc, stream_id |-> entry.id,
                               episode |-> episode.id] })

\* lines 31-47: the account and the series the test works on
TestSetup ==
    /\ script = "test_episode_deduplication"
    /\ pc = "setup"
    /\ IF ActiveAccounts(db_accounts) = {}
       THEN /\ out' = Append(out, "no_active_account")
            /\ ret' = << FALSE >>
            /\ pc' = "done"
            /\ UNCHANGED <<account, series, db_series>>
       ELSE /\ \E acc \in ActiveAccounts(db_accounts) : account' = << acc >>
            /\ IF MustCreateSeries(db_series)
               THEN /\ db_series' = db_series \cup
                         { [id |-> MaxId(db_series) + 1, name |-> TestSeriesName] }
                    /\ series' = << MaxId(db_series) + 1 >>
                    /\ out' = Append(out, "creating_test_series")
               ELSE /\ \E s \in MasterChefSeries(db_series) : series' = << s.id >>
                    /\ UNCHANGED <<db_series, out>>
            /\ pc' = "count"
            /\ ret' = ret
    /\ UNCHANGED <<mainVars, script, cmpVars, db_accounts, db_episodes, db_relations, db_before,
                   findVars, initial_episode_count, initial_relation_count,
                   episodes_created, relations_created, rawVars>>

\* lines 124-130: the counts before the call
TestCount ==
    /\ script = "test_episode_deduplication"
    /\ pc = "count"
    /\ initial_episode_count' = Cardinality(EpisodesS09E02(db_episodes, series[1]))
    /\ initial_relation_count' =
         Cardinality({ r \in db_relations : r.m3u_account = account[1] })
    /\ pc' = "batch"
    /\ UNCHANGED <<mainVars, script, out, ret, cmpVars, dbVars, findVars, account, series,
                   episodes_created, relations_created, rawVars>>

\* lines 132-134: batch_process_episodes(account, series, episodes_data, ...)
TestBatch ==
    /\ script = "test_episode_deduplication"
    /\ pc = "batch"
    /\ LET after == batch_process_episodes(account[1], series[1], episodes_data,
                                           db_episodes, db_relations) IN
       /\ db_episodes' = after.episodes
       /\ db_relations' = after.relations
    /\ pc' = "verify"
    /\ UNCHANGED <<mainVars, script, out, ret, cmpVars, db_accounts, db_series, db_before,
                   findVars, testVars, rawVars>>

\* lines 136-197: the counts after the call and the three checks
TestVerify ==
    /\ script = "test_episode_deduplication"
    /\ pc = "verify"
    /\ LET final_episode_count == Cardinality(EpisodesS09E02(db_episodes, series[1]))
           relations_ == { r \in db_relations :
                             r.m3u_account = account[1] /\ r.stream_id \in TestStreamIds }
           final_relation_count == Cardinality(relations_)
           created_e == final_episode_count - initial_episode_count
           created_r == final_relation_count - initial_relation_count
           unique_episodes == { r.episode : r \in relations_ }
           success == /\ created_e = 1
                      /\ created_r = 5
                      /\ EpisodesS09E02(db_episodes, series[1]) # {}
                      /\ Cardinality(unique_episodes) = 1
       IN /\ episodes_created' = created_e
          /\ relations_created' = created_r
          /\ ret' = << success >>
          /\ out' = Append(out, IF success THEN "all_tests_passed" ELSE "some_tests_failed")
    /\ pc' = "done"
    /\ UNCHANGED <<mainVars, script, cmpVars, dbVars, findVars, account, series,
                   initial_episode_count, initial_relation_count, rawVars>>

\* sample tables, with every reference resolving
AccountTables ==
    { {} } \cup
    { { [id |-> 1, is_active |-> b1, account_type |-> "XC"],
        [id |-> 2, is_active |-> b2, account_type |-> "XC"] } :
      b1 \in BOOLEAN, b2 \in BOOLEAN }

SeriesTables ==
    { {},
      { [id |-> 1, name |-> "MasterChef Junior"] },
      { [id |-> 1, name |-> "Other Show"] },
      { [id |-> 1, name |-> "Other Show"], [id |-> 2, name |-> "masterchef us"] } }

EpisodeSamples ==
    { [id |-> 1, series |-> 1, season_number |-> 9, episode_number |-> 2],
      [id |-> 2, series |-> 1, season_number |-> 9, episode_number |-> 3],
      [id |-> 3, series |-> 2, season_number |-> 9, episode_number |-> 2] }

RelationSamples ==
    { [m3u_account |-> 1, stream_id |-> 78025, episode |-> 1],
      [m3u_account |-> 1, stream_id |-> 78026, episode |-> 2],
      [m3u_account |-> 1, stream_id |-> 99999, episode |-> 2],
      [m3u_account |-> 2, stream_id |-> 78025, episode |-> 3] }

InitTest ==
    /\ script = "test_episode_deduplication"
    /\ pc = "setup"
    /\ db_accounts \in AccountTables
    /\ db_series \in SeriesTables
    /\ db_episodes \in SUBSET { e \in EpisodeSamples :
                                  e.series \in { s.id : s \in db_series } }
    /\ db_relations \in SUBSET { r \in RelationSamples :
                                   /\ r.m3u_account \in { a.id : a \in db_accounts }
                                   /\ r.episode \in { e.id : e \in db_episodes } }
    /\ db_before = << db_series, db_episodes, db_relations >>
    /\ InitLocals
    /\ IdleMain
    /\ IdleCompare
    /\ IdleFind
    /\ IdleTest
    /\ IdleRaw

NextTest == TestSetup \/ TestCount \/ TestBatch \/ TestVerify

SpecTest == InitTest /\ [][NextTest]_vars

-----------------------------------------------------------------------------
(* scripts/analyze_provider_raw.py: check_stream_health, analyze_raw_feed *)

SeriesSampleLimit == 10   \* all_series[:10]

\* What ffprobe answers to check_stream_health: it timed out, or it returned
\* with a return code and an output that parses to a JSON value or does not.
HealthAnswers ==
    { [timeout |-> TRUE,  returncode |-> 0, json_ok |-> TRUE,  data_empty |-> FALSE, streams |-> <<>>],
      [timeout |-> FALSE, returncode |-> 1, json_ok |-> TRUE,  data_empty |-> FALSE, streams |-> <<>>],
      [timeout |-> FALSE, returncode |-> 0, json_ok |-> FALSE, data_empty |-> FALSE, streams |-> <<>>],
      [timeout |-> FALSE, returncode |-> 0, json_ok |-> TRUE,  data_empty |-> TRUE,  streams |-> <<>>],
      [timeout |-> FALSE, returncode |-> 0, json_ok |-> TRUE,  data_empty |-> FALSE, streams |-> <<>>],
      [timeout |-> FALSE, returncode |-> 0, json_ok |-> TRUE,  data_empty |-> FALSE,
       streams |-> << [codec_type |-> "audio"] >>],
      [timeout |-> FALSE, returncode |-> 0, json_ok |-> TRUE,  data_empty |-> FALSE,
       streams |-> << [codec_type |-> "video"], [codec_type |-> "audio"] >>] }

\* mutant: a file without streams is reported valid
check_stream_health_ghost(answer) ==
    IF answer.timeout THEN [is_valid |-> FALSE, summary |-> "Exception"]
    ELSE IF answer.returncode # 0 THEN [is_valid |-> FALSE, summary |-> "ffprobe ERROR"]
    ELSE IF ~answer.json_ok THEN [is_valid |-> FALSE, summary |-> "Invalid JSON output"]
    ELSE IF answer.data_empty THEN [is_valid |-> FALSE, summary |-> "Empty Response"]
    ELSE [is_valid |-> TRUE, summary |-> "Video: None"]

\* check_stream_health(url): (is_valid, summary)
check_stream_health(answer) ==
    IF answer.timeout THEN [is_valid |-> FALSE, summary |-> "Exception"]
    ELSE IF answer.returncode # 0 THEN [is_valid |-> FALSE, summary |-> "ffprobe ERROR"]
    ELSE IF ~answer.json_ok THEN [is_valid |-> FALSE, summary |-> "Invalid JSON output"]
    ELSE IF answer.data_empty THEN [is_valid |-> FALSE, summary |-> "Empty Response"]
    ELSE IF answer.streams = <<>>
         THEN [is_valid |-> FALSE, summary |-> "NO STREAMS FOUND (Ghost File)"]
    ELSE IF FirstOfType(answer.streams, "video", 1) # None
         THEN [is_valid |-> TRUE, summary |-> "Video: codec (WxH)"]
         ELSE [is_valid |-> TRUE, summary |-> "Video: None"]

\* M3UAccount.objects.filter(is_active=True, account_type='XC')
ActiveXCAccounts(table) == { a \in table : a.is_active /\ a.account_type = "XC" }

\* the seasons of the dict, in order, each with its entries
RECURSIVE ConcatSeasons(_)
ConcatSeasons(seasons) ==
    IF seasons = <<>> THEN <<>> ELSE Head(seasons).eps \o ConcatSeasons(Tail(seasons))

\* all_eps: the entries of a dict of seasons, or of a list, or nothing
AllEps(episodes) ==
    IF episodes.kind = "dict" THEN ConcatSeasons(episodes.seasons)
    ELSE IF episodes.kind = "list" THEN episodes.eps
    ELSE <<>>

\* s = ep.get('season') or ep.get('season_number'); key = (s, e)
KeyOf(ep) ==
    << IF ep.season # 0 THEN ep.season ELSE ep.season_number, ep.episode_num >>

\* ep_map[key].append(...): a new key goes last, a known key gets one more stream
RECURSIVE MapAppend(_, _, _)
MapAppend(ep_map, key, stream_id) ==
    IF ep_map = <<>> THEN << [key |-> key, streams |-> << stream_id >>] >>
    ELSE IF Head(ep_map).key = key
         THEN << [key |-> key, streams |-> Append(Head(ep_map).streams, stream_id)] >>
              \o Tail(ep_map)
         ELSE << Head(ep_map) >> \o MapAppend(Tail(ep_map), key, stream_id)

\* for ep in all_eps: ...
RECURSIVE EpMap(_, _)
EpMap(all_eps, ep_map) ==
    IF all_eps = <<>> THEN ep_map
    ELSE EpMap(Tail(all_eps), MapAppend(ep_map, KeyOf(Head(all_eps)), Head(all_eps).id))

\* mutant: only groups of three or more streams are reported
HasSeveralStreams_three(streams) == Len(streams) > 2

\* if len(streams) > 1
HasSeveralStreams(streams) == Len(streams) > 1

\* the stream lists of the groups that are reported, in the order of ep_map
RECURSIVE ReportedGroups(_)
ReportedGroups(ep_map) ==
    IF ep_map = <<>> THEN <<>>
    ELSE IF HasSeveralStreams(Head(ep_map).streams)
         THEN << Head(ep_map).streams >> \o ReportedGroups(Tail(ep_map))
         ELSE ReportedGroups(Tail(ep_map))

\* the account and the series list
RawStart ==
    /\ script = "analyze_raw_feed"
    /\ pc = "start"
    /\ IF ActiveXCAccounts(db_accounts) = {}
       THEN /\ out' = Append(out, "no_active_xc_account")
            /\ pc' = "done"
       ELSE /\ out' = Append(out, "fetching_series_list")
            /\ pc' = "series"
    /\ UNCHANGED <<mainVars, script, ret, cmpVars, dbVars, findVars, testVars, rawVars>>

\* one pass of `for i, series_info in enumerate(all_series[:10])`, up to the
\* first stream of its first reported group
RawSeries ==
    /\ script = "analyze_raw_feed"
    /\ pc = "series"
    /\ series_idx < Len(Take(feed, SeriesSampleLimit))
    /\ LET episodes == feed[series_idx + 1].episodes
           groups == ReportedGroups(EpMap(AllEps(episodes), <<>>)) IN
       IF groups = <<>>
       THEN /\ series_idx' = series_idx + 1
            /\ UNCHANGED <<pc, to_check>>
       ELSE /\ to_check' = groups
            /\ pc' = "check"
            /\ UNCHANGED series_idx
    /\ UNCHANGED <<mainVars, script, out, ret, cmpVars, dbVars, findVars, testVars,
                   feed, health, duplicates_found>>

\* one pass of `for stream_entry in streams`; after the last stream of a group
\* duplicates_found += 1
RawCheckStream ==
    /\ script = "analyze_raw_feed"
    /\ pc = "check"
    /\ \E answer \in HealthAnswers :
         LET stream_id == Head(Head(to_check))
             checked == check_stream_health(answer) IN
         /\ health' = Append(health, [series |-> series_idx + 1, stream_id |-> stream_id,
                                      is_valid |-> checked.is_valid])
         /\ out' = Append(out, IF checked.is_valid THEN "status_valid" ELSE "status_broken")
    /\ IF Tail(Head(to_check)) # <<>>
       THEN /\ to_check' = << Tail(Head(to_check)) >> \o Tail(to_check)
            /\ UNCHANGED <<duplicates_found, series_idx, pc>>
       ELSE /\ duplicates_found' = duplicates_found + 1
            /\ to_check' = Tail(to_check)
            /\ IF Tail(to_check) = <<>>
               THEN series_idx' = series_idx + 1 /\ pc' = "series"
               ELSE UNCHANGED <<series_idx, pc>>
    /\ UNCHANGED <<mainVars, script, ret, cmpVars, dbVars, findVars, testVars, feed>>

\* the closing lines
RawSummary ==
    /\ script = "analyze_raw_feed"
    /\ pc = "series"
    /\ series_idx = Len(Take(feed, SeriesSampleLimit))
    /\ out' = Append(out, IF duplicates_found = 0 THEN "no_duplicates_found"
                          ELSE "found_cases_of_multiple_streams")
    /\ pc' = "done"
    /\ UNCHANGED <<mainVars, script, ret, cmpVars, dbVars, findVars, testVars, rawVars>>

\* the entries of one series: stream ids 1..n, each of episode 1 or 2 of season 1
\* (given as 'season', or as 'season_number' when 'season' is 0)
FeedEntries ==
    UNION { { [k \in 1..n |-> [id |-> k, season |-> IF e[k] = 1 THEN 1 ELSE 0,
                               season_number |-> 1, episode_num |-> e[k]]] :
              e \in [1..n -> {1, 2}] } : n \in 0..MaxFeedEpisodes }

\* a second series, served as a dict of seasons, with one episode in two streams
DictSeries ==
    [kind |-> "dict",
     seasons |-> << [season |-> "1",
                     eps |-> << [id |-> 1, season |-> 1, season_number |-> 1, episode_num |-> 1] >>],
                    [season |-> "2",
                     eps |-> << [id |-> 2, season |-> 2, season_number |-> 2, episode_num |-> 1],
                                [id |-> 3, season |-> 0, season_number |-> 2, episode_num |-> 1] >>] >>]

Feeds ==
    { << [episodes |-> [kind |-> "list", eps |-> eps]] >> : eps \in FeedEntries } \cup
    { << [episodes |-> [kind |-> "list", eps |-> eps]], [episodes |-> DictSeries] >> :
        eps \in FeedEntries } \cup
    { << [episodes |-> [kind |-> "none"]] >>, <<>> }

RawAccountTables ==
    { {},
      { [id |-> 1, is_active |-> TRUE, account_type |-> "STD"] },
      { [id |-> 1, is_active |-> TRUE, account_type |-> "XC"] },
      { [id |-> 1, is_active |-> FALSE, account_type |-> "XC"],
        [id |-> 2, is_active |-> TRUE, account_type |-> "XC"] } }

InitRaw ==
    /\ script = "analyze_raw_feed"
    /\ pc = "start"
    /\ db_accounts \in RawAccountTables
    /\ db_series = {}
    /\ db_episodes = {}
    /\ db_relations = {}
    /\ db_before = << db_series, db_episodes, db_relations >>
    /\ feed \in Feeds
    /\ series_idx = 0
    /\ to_check = <<>>
    /\ health = <<>>
    /\ duplicates_found = 0
    /\ InitLocals
    /\ IdleMain
    /\ IdleCompare
    /\ IdleFind
    /\ IdleTest

NextRaw == RawStart \/ RawSeries \/ RawCheckStream \/ RawSummary

SpecRaw == InitRaw /\ [][NextRaw]_vars

-----------------------------------------------------------------------------
(* compare_streams.py: main() *)

MaxMainEpisodes == 2   \* episodes the first account has streams for, in a run of main

\* the probe answers sampled in a run of main
MainProbeAnswers == AnswersWithSizes({1000})

\* find_episodes_with_duplicate_streams() as main calls it: the accounts are
\* visited in ascending id order
RECURSIVE FindAll(_, _, _)
FindAll(accounts, table, tie) ==
    IF accounts = {} THEN <<>>
    ELSE LET acc == CHOOSE a \in accounts : \A b \in accounts : a <= b
             duplicate_episodes == DuplicateEpisodes(table, acc, tie)
             rest == FindAll(accounts \ {acc}, table, tie)
         IN IF duplicate_episodes # <<>>
            THEN << [account |-> acc,
                     episode_ids |-> Take(duplicate_episodes, DuplicateLimit)] >> \o rest
            ELSE rest

\* for account, episode_ids in episodes_by_account.items(): for episode_id in episode_ids
RECURSIVE EpisodeQueue(_)
EpisodeQueue(by_account) ==
    IF by_account = <<>> THEN <<>>
    ELSE [ k \in 1..Len(Head(by_account).episode_ids) |->
             << Head(by_account).account, Head(by_account).episode_ids[k] >> ]
         \o EpisodeQueue(Tail(by_account))

\* M3UEpisodeRelation.objects.filter(m3u_account=account, episode=episode), as
\* the list of its stream ids in ascending order
RECURSIVE SortedIds(_)
SortedIds(ids) ==
    IF ids = {} THEN <<>>
    ELSE LET least == CHOOSE a \in ids : \A b \in ids : a <= b
         IN << least >> \o SortedIds(ids \ {least})

RelationsOf(table, acc, episode) ==
    SortedIds({ r.stream_id : r \in { x \in table : x.m3u_account = acc /\ x.episode = episode } })

\* `for rel in relations` of analyze_episode_streams, run to its end
RECURSIVE ProbeLoop(_, _, _, _, _)
ProbeLoop(ids, has_url, answers, k, dict) ==
    IF k > Len(ids) THEN dict
    ELSE IF ~has_url[k] THEN ProbeLoop(ids, has_url, answers, k + 1, dict)
    ELSE ProbeLoop(ids, has_url, answers, k + 1,
                   DictSet(dict, ids[k], ffprobe_stream(answers[k])))

\* analyze_episode_streams(account, episode): what it returns and what it
\* prints under COMPARISON RESULTS
EpisodeResult(ids, has_url, answers) ==
    LET valid_results == ValidResults(ProbeLoop(ids, has_url, answers, 1, <<>>)) IN
    IF NotEnoughValid(valid_results)
    THEN [ret |-> FALSE, printed |-> "not_enough_valid_streams"]
    ELSE IF IdenticalLoop(valid_results, Baseline(valid_results), 1).all_identical
         THEN [ret |-> TRUE, printed |-> "all_streams_identical"]
         ELSE [ret |-> FALSE, printed |-> "streams_different"]

\* episodes_by_account = find_episodes_with_duplicate_streams(); if not ...: return
main_Start ==
    /\ script = "main"
    /\ pc = "start"
    /\ \E tie \in {"asc", "desc"} :
         LET found == FindAll(ActiveAccounts(db_accounts), db_relations, tie) IN
         /\ episodes_by_account' = found
         /\ IF found = <<>>
            THEN /\ out' = Append(out, "no_episodes_with_duplicate_streams")
                 /\ pc' = "done"
                 /\ UNCHANGED episode_queue
            ELSE /\ episode_queue' = EpisodeQueue(found)
                 /\ pc' = "analyze"
                 /\ out' = out
    /\ total_analyzed' = 0
    /\ identical_count' = 0
    /\ different_count' = 0
    /\ UNCHANGED <<script, ret, accounts_left, cmpVars, dbVars, testVars, rawVars>>

\* one pass of `for episode_id in episode_ids`
main_Episode ==
    /\ script = "main"
    /\ pc = "analyze"
    /\ episode_queue # <<>>
    /\ LET acc == Head(episode_queue)[1]
           episode_id == Head(episode_queue)[2]
           ids == RelationsOf(db_relations, acc, episode_id)
       IN IF \A e \in db_episodes : e.id # episode_id
          THEN \* except Episode.DoesNotExist
               /\ out' = Append(out, "episode_not_found")
               /\ UNCHANGED <<total_analyzed, identical_count, different_count>>
          ELSE \E raised \in BOOLEAN,
                  has_url \in [1..Len(ids) -> BOOLEAN],
                  answers \in [1..Len(ids) -> MainProbeAnswers] :
                 IF raised
                 THEN \* except Exception: the data store fails during the analysis
                      /\ out' = Append(out, "error_analyzing_episode")
                      /\ UNCHANGED <<total_analyzed, identical_count, different_count>>
                 ELSE LET is_identical == EpisodeResult(ids, has_url, answers) IN
                      /\ out' = Append(out, is_identical.printed)
                      /\ total_analyzed' = total_analyzed + 1
                      /\ IF is_identical.ret
                         THEN /\ identical_count' = identical_count + 1
                              /\ UNCHANGED different_count
                         ELSE /\ different_count' = different_count + 1
                              /\ UNCHANGED identical_count
    /\ episode_queue' = Tail(episode_queue)
    /\ UNCHANGED <<script, pc, ret, cmpVars, dbVars, findVars, testVars, rawVars>>

\* OVERALL SUMMARY
main_Summary ==
    /\ script = "main"
    /\ pc = "analyze"
    /\ episode_queue = <<>>
    /\ out' = out \o << "overall_summary" >>
                  \o (IF identical_count > 0 THEN << "warning_duplicate_streams" >> ELSE <<>>)
                  \o (IF different_count > 0 THEN << "legitimate_quality_variants" >> ELSE <<>>)
    /\ pc' = "done"
    /\ UNCHANGED <<script, ret, cmpVars, dbVars, findVars, testVars, rawVars, mainVars>>

\* the stream counts (1 or 2) of the episodes 1..n of one account
MainCounts == UNION { [1..n -> {1, 2}] : n \in 0..MaxMainEpisodes }

InitMain ==
    /\ script = "main"
    /\ pc = "start"
    /\ \E active2 \in BOOLEAN :
         db_accounts = { [id |-> 1, is_active |-> TRUE, account_type |-> "XC"],
                         [id |-> 2, is_active |-> active2, account_type |-> "XC"] }
    /\ db_series = { [id |-> 1, name |-> "Other Show"] }
    /\ db_episodes = { [id |-> e, series |-> 1, season_number |-> 1, episode_number |-> e] :
                       e \in 1..MaxMainEpisodes }
    /\ \E counts1 \in MainCounts, counts2 \in { <<>>, << 2 >> } :
         db_relations = RowsOf(1, counts1) \cup RowsOf(2, counts2)
    /\ db_before = << db_series, db_episodes, db_relations >>
    /\ InitLocals
    /\ IdleMain
    /\ IdleCompare
    /\ IdleFind
    /\ IdleTest
    /\ IdleRaw

NextMain == main_Start \/ main_Episode \/ main_Summary

SpecMain == InitMain /\ [][NextMain]_vars

-----------------------------------------------------------------------------
(* compare_streams of verify_stream_differences.py, given URLs whose probes
   differ in every field of the metadata *)

FieldUrlLists == { [k \in 1..n |-> [stream_id |-> k, url |-> << "v" >>]] : n \in 0..MaxStreams }

InitFields ==
    /\ script = "compare_streams"
    /\ pc = "probe"
    /\ stream_urls \in FieldUrlLists
    /\ relations = <<>>
    /\ InitDbOfRows(relations)
    /\ episode_exists = FALSE
    /\ argv = <<>>
    /\ stdin = <<>>
    /\ InitLocals
    /\ IdleMain
    /\ IdleFind
    /\ IdleTest
    /\ IdleRaw

NextFields == VerifyProbe \/ VerifyCompare

SpecFields == InitFields /\ [][NextFields]_vars

-----------------------------------------------------------------------------
(* ffprobe_stream(url) of both scripts, called once on any answer of ffprobe *)

MaxProbeStreams == 3   \* streams one ffprobe answer lists

StreamSamples ==
    { VideoStream(1920, "h264", << 25, 1 >>),
      VideoStream(1280, "hevc", << 30, 1 >>),
      VideoStream(1280, "h264", << 0, 0 >>),
      AudioStream("aac", 2),
      AudioStream("ac3", 6),
      [codec_type |-> "subtitle", width |-> 0, height |-> 0,
       codec_name |-> "subrip", r_frame_rate |-> << 0, 0 >>, channels |-> 0] }

AnyAnswers ==
    { [timed_out |-> t, returncode |-> rc, parses |-> p, streams |-> streams,
       bit_rate |-> 1000000, bit_rate_is_number |-> n, size |-> 1000, duration |-> 3600] :
      t \in BOOLEAN, rc \in {0, 1}, p \in BOOLEAN, n \in BOOLEAN,
      streams \in UNION { [1..len -> StreamSamples] : len \in 0..MaxProbeStreams } }

\* compare_streams.py: metadata = ffprobe_stream(stream_url, timeout=15)
ProbeCall ==
    /\ script = "ffprobe_stream"
    /\ pc = "call"
    /\ ret' = << ffprobe_stream(probeOut[1]) >>
    /\ out' = IF ProbeMessage(probeOut[1]) = "" THEN out
              ELSE Append(out, ProbeMessage(probeOut[1]))
    /\ pc' = "done"
    /\ UNCHANGED <<script, cmpVars, dbVars, findVars, testVars, rawVars, mainVars>>

\* verify_stream_differences.py: metadata = ffprobe_stream(url)
verify_ProbeCall ==
    /\ script = "verify_ffprobe_stream"
    /\ pc = "call"
    /\ ret' = << verify_ffprobe_stream(probeOut[1]) >>
    /\ out' = IF ProbeMessage(probeOut[1]) = "" THEN out
              ELSE Append(out, ProbeMessage(probeOut[1]))
    /\ pc' = "done"
    /\ UNCHANGED <<script, cmpVars, dbVars, findVars, testVars, rawVars, mainVars>>

InitProbe ==
    /\ script \in {"ffprobe_stream", "verify_ffprobe_stream"}
    /\ pc = "call"
    /\ out = <<>>
    /\ ret = <<>>
    /\ i = 0
    /\ results = <<>>
    /\ probed = << 1 >>
    /\ \E answer \in AnyAnswers : probeOut = << answer >>
    /\ verdict = "none"
    /\ compared = <<>>
    /\ tolerance100 = -1
    /\ IdleCompare
    /\ InitDbOfRows(relations)
    /\ IdleMain
    /\ IdleFind
    /\ IdleTest
    /\ IdleRaw

NextProbe == ProbeCall \/ verify_ProbeCall

SpecProbe == InitProbe /\ [][NextProbe]_vars

\* every script
InitAll == Init \/ InitFind \/ InitTest \/ InitRaw \/ InitMain

NextAll == Next \/ NextFind \/ NextTest \/ NextRaw \/ NextMain

SpecAll == InitAll /\ [][NextAll]_vars

-----------------------------------------------------------------------------
(* Properties of the two comparison scripts *)

Range(seq) == { seq[k] : k \in 1..Len(seq) }

\* the entries of `results` whose probe succeeded, in insertion order
Successful == SelectSeq(results, LAMBDA e : e.metadata # None)

\* ffprobe answered with a video stream
ProbeSucceeded(answer) ==
    /\ answer.returncode = 0
    /\ \E k \in 1..Len(answer.streams) : answer.streams[k].codec_type = "video"

\* the answers of the successful probes, in the order the probes were made
SuccessfulAnswers == SelectSeq(probeOut, ProbeSucceeded)

\* the stream ids of the successful probes, in the order the probes were made
SuccessfulIds ==
    LET idx == SelectSeq([k \in 1..Len(probed) |-> k],
                         LAMBDA k : ProbeSucceeded(probeOut[k]))
    IN [k \in 1..Len(idx) |-> probed[idx[k]]]

\* value differs from base by no more than 5% of base
WithinFivePercent(value, base) == Abs(value - base) * 100 <= 5 * base

AnalyzeReturned == script = "analyze_episode_streams" /\ ret # <<>>
VerifyReturned == script \in {"compare_streams", "verify_main"} /\ ret # <<>>

\* C1: analyze_episode_streams, given at least two successful probes, returns
\* True exactly when every successful probe has the baseline's resolution
\* string and a bitrate and a file size within 5% of the baseline's (exactly 5%
\* included, a baseline of 0 admitting only 0), and False otherwise.
C1_FivePercentRule ==
    (AnalyzeReturned /\ Len(Successful) >= 2) =>
        LET base == Successful[1].metadata
            same == \A k \in 1..Len(Successful) :
                      LET m == Successful[k].metadata IN
                      /\ m.resolution = base.resolution
                      /\ WithinFivePercent(m.bitrate, base.bitrate)
                      /\ WithinFivePercent(m.file_size, base.file_size)
        IN /\ ret \in { << TRUE >>, << FALSE >> }
           /\ (ret = << TRUE >>) <=> same

\* a run that returned True with a bitrate exactly 5% off the baseline's
C1_Witness ==
    /\ AnalyzeReturned
    /\ Len(Successful) >= 2
    /\ ret = << TRUE >>
    /\ \E k \in 1..Len(Successful) :
         /\ Successful[k].metadata.bitrate # Successful[1].metadata.bitrate
         /\ Abs(Successful[k].metadata.bitrate - Successful[1].metadata.bitrate) * 100
              = 5 * Successful[1].metadata.bitrate

\* C2 as stated: with fewer than two successful probes nothing is compared, no
\* verdict is printed, both functions report "Not enough valid streams to
\* compare", analyze_episode_streams returns False and compare_streams returns
\* the results as collected.
C2_Original ==
    ((AnalyzeReturned \/ VerifyReturned) /\ Len(Successful) < 2) =>
        /\ verdict = "none"
        /\ compared = <<>>
        /\ out # <<>> /\ out[Len(out)] = "not_enough_valid_streams"
        /\ Range(out) \cap {"all_streams_identical", "streams_different"} = {}
        /\ AnalyzeReturned => ret = << FALSE >>
        /\ VerifyReturned => ret = << results >>

\* C2 amended: as C2, except that compare_streams reports "No streams could be
\* analyzed" instead when `results` is empty (no stream was given to it).
C2_NotEnoughValid ==
    ((AnalyzeReturned \/ VerifyReturned) /\ Len(Successful) < 2) =>
        /\ verdict = "none"
        /\ compared = <<>>
        /\ out # <<>>
        /\ out[Len(out)] = IF VerifyReturned /\ results = <<>>
                           THEN "no_streams_could_be_analyzed"
                           ELSE "not_enough_valid_streams"
        /\ Range(out) \cap {"all_streams_identical", "streams_different"} = {}
        /\ AnalyzeReturned => ret = << FALSE >>
        /\ VerifyReturned => ret = << results >>

\* analyze_episode_streams returned with one successful probe out of several
C2_Witness ==
    /\ AnalyzeReturned
    /\ Len(results) >= 2
    /\ Len(Successful) = 1

\* the baseline is the first successful probe in probing order, and every
\* comparison made has it on the left
BaselineIsFirstSeen ==
    /\ compared # <<>>
    /\ \A k \in 1..Len(compared) :
         /\ compared[k][1] = SuccessfulIds[1]
         /\ compared[k][2] \in Range(SuccessfulIds)

\* C3 as stated: the baseline is the first successfully probed stream, every
\* other successful probe is compared against it only, and the tolerance is a
\* percentage (5%) of the baseline's value, in both scripts.
C3_Original ==
    ((AnalyzeReturned \/ VerifyReturned) /\ Len(Successful) >= 2) =>
        /\ BaselineIsFirstSeen
        /\ tolerance100 = 5 * SuccessfulAnswers[1].bit_rate

\* C3 amended: the baseline is the first successfully probed stream and every
\* other successful probe is compared against it only; the tolerance is 5% of
\* the baseline's value in compare_streams.py, and a fixed 100000 bit/s,
\* whatever the baseline, in verify_stream_differences.py.
C3_FirstSeenBaseline ==
    ((AnalyzeReturned \/ VerifyReturned) /\ Len(Successful) >= 2) =>
        /\ BaselineIsFirstSeen
        /\ AnalyzeReturned => tolerance100 = 5 * SuccessfulAnswers[1].bit_rate
        /\ VerifyReturned => tolerance100 = 100000 * 100

\* the first probe failed, so the second is the baseline of two comparisons
C3_Witness ==
    /\ AnalyzeReturned
    /\ Len(probeOut) = 3
    /\ ~ProbeSucceeded(probeOut[1])
    /\ Len(compared) = 2
    /\ compared[2] = << probed[2], probed[3] >>

\* C4 as stated: compare_streams of verify_stream_differences.py judges at
\* least two successful probes identical exactly when each has the baseline's
\* resolution string and a bitrate and a file size within 5% of the baseline's.
C4_Original ==
    (VerifyReturned /\ Len(Successful) >= 2) =>
        LET base == SuccessfulAnswers[1]
            same == \A k \in 1..Len(SuccessfulAnswers) :
                      LET a == SuccessfulAnswers[k] IN
                      /\ Successful[k].metadata.resolution = Successful[1].metadata.resolution
                      /\ WithinFivePercent(a.bit_rate, base.bit_rate)
                      /\ WithinFivePercent(a.size, base.size)
        IN (verdict = "identical") <=> same

\* C4 amended: compare_streams of verify_stream_differences.py follows another
\* rule: it judges at least two successful probes identical exactly when each
\* has the baseline's resolution string and a bitrate no more than 100000 bit/s
\* from the baseline's, and different otherwise; file size is not compared.
C4_VerifyRule ==
    (VerifyReturned /\ Len(Successful) >= 2) =>
        LET base == Successful[1].metadata
            same == \A k \in 1..Len(Successful) :
                      LET m == Successful[k].metadata IN
                      /\ m.resolution = base.resolution
                      /\ Abs(m.bitrate - base.bitrate) <= 100000
        IN /\ verdict \in {"identical", "different"}
           /\ (verdict = "identical") <=> same

\* judged identical with a bitrate exactly 100000 bit/s (10%) off the baseline's
C4_Witness ==
    /\ VerifyReturned
    /\ Len(Successful) >= 2
    /\ verdict = "identical"
    /\ \E k \in 1..Len(Successful) :
         Abs(Successful[k].metadata.bitrate - Successful[1].metadata.bitrate) = 100000

\* the streams the run is to probe: the relations that have a URL, or the URLs
\* given to compare_streams
StreamsWithUrl ==
    IF script = "analyze_episode_streams"
    THEN LET rows == SelectSeq(relations, LAMBDA r : r.has_url)
         IN [k \in 1..Len(rows) |-> rows[k].stream_id]
    ELSE [k \in 1..Len(stream_urls) |-> stream_urls[k].stream_id]

IsPrefix(a, b) == Len(a) <= Len(b) /\ a = SubSeq(b, 1, Len(a))

\* C8: within one invocation each stream that has a URL is probed exactly once,
\* a stream without a URL is never probed and gets no entry in `results`, and
\* every probe has finished before the results are compared.
C8_ProbedOnce ==
    (script \in {"analyze_episode_streams", "compare_streams", "verify_main"}) =>
        /\ IsPrefix(probed, StreamsWithUrl)
        /\ Len(probeOut) = Len(probed)
        /\ [k \in 1..Len(results) |-> results[k].stream_id] = probed
        /\ (ret # <<>> \/ verdict # "none" \/ compared # <<>>) => probed = StreamsWithUrl

\* a finished run over a relation without URL and two with one
C8_Witness ==
    /\ AnalyzeReturned
    /\ Len(relations) = 3
    /\ ~relations[2].has_url
    /\ probed = << 1, 3 >>
    /\ verdict # "none"

\* C10: `python verify_stream_differences.py < urls.txt` (no argument, at
\* least two URLs on standard input) reads the URLs from standard input and
\* passes them to compare_streams.
C10_ManualFromStdin ==
    [][ ( /\ script = "verify_main"
          /\ pc = "main"
          /\ Len(argv) = 1
          /\ Len(ReadUrls(stdin)) >= 2 )
        => ( /\ stdin' = <<>>
             /\ stream_urls' = LabelUrls(ReadUrls(stdin))
             /\ pc' = "probe" ) ]_vars

-----------------------------------------------------------------------------
(* Properties of find_episodes_with_duplicate_streams *)

FindReturned == script = "find_episodes_with_duplicate_streams" /\ ret # <<>>

\* number of stream relations of an account for an episode
RelationCount(acc, episode) ==
    Cardinality({ r \in db_relations : r.m3u_account = acc /\ r.episode = episode })

\* the episodes an account has more than one stream relation for
EpisodesWithDuplicates(acc) ==
    { r.episode : r \in { x \in db_relations :
                            x.m3u_account = acc /\ RelationCount(acc, x.episode) > 1 } }

Min(a, b) == IF a < b THEN a ELSE b

\* C9: find_episodes_with_duplicate_streams returns, for each active account
\* that has episodes with more than one stream relation, the first 10 (or all,
\* if fewer) of them in order of descending stream count; every returned
\* episode has more than one relation for its account; an account without
\* such an episode, like every inactive account, is absent.
C9_FirstTenByCount ==
    FindReturned =>
        LET found == ret[1]
            listed == { found[k].account : k \in 1..Len(found) }
        IN /\ \A k, l \in 1..Len(found) : found[k].account = found[l].account => k = l
           /\ listed = { a.id : a \in { x \in db_accounts :
                           x.is_active /\ EpisodesWithDuplicates(x.id) # {} } }
           /\ \A k \in 1..Len(found) :
                LET acc == found[k].account
                    ids == found[k].episode_ids
                    dups == EpisodesWithDuplicates(acc)
                IN /\ Len(ids) = Min(10, Cardinality(dups))
                   /\ \A m, n \in 1..Len(ids) : ids[m] = ids[n] => m = n
                   /\ \A m \in 1..Len(ids) :
                        /\ ids[m] \in dups
                        /\ RelationCount(acc, ids[m]) > 1
                        /\ m < Len(ids) =>
                             RelationCount(acc, ids[m]) >= RelationCount(acc, ids[m + 1])
                        /\ \A e \in dups \ { ids[n] : n \in 1..Len(ids) } :
                             RelationCount(acc, e) <= RelationCount(acc, ids[m])

\* eleven episodes with duplicates, of which ten are returned, the one with
\* most streams first; the inactive second account has duplicates and is absent
C9_Witness ==
    /\ FindReturned
    /\ Len(ret[1]) = 1
    /\ ret[1][1].account = 1
    /\ Cardinality(EpisodesWithDuplicates(1)) > 10
    /\ Len(ret[1][1].episode_ids) = 10
    /\ RelationCount(1, ret[1][1].episode_ids[1]) > RelationCount(1, ret[1][1].episode_ids[10])
    /\ EpisodesWithDuplicates(2) # {}

-----------------------------------------------------------------------------
(* Properties of analyze_raw_feed *)

\* the run found an account and went through the feed
RawDone ==
    /\ script = "analyze_raw_feed"
    /\ pc = "done"
    /\ Len(out) >= 1
    /\ out[1] = "fetching_series_list"

SeriesLookedAt == 1..Min(SeriesSampleLimit, Len(feed))

\* number of entries of series k with the (season, episode number) of entry j
GroupSize(k, j) ==
    LET all == AllEps(feed[k].episodes) IN
    Cardinality({ n \in 1..Len(all) : KeyOf(all[n]) = KeyOf(all[j]) })

\* <<series, stream id>> of the streams in groups of two or more
StreamsInGroups ==
    UNION { { << k, AllEps(feed[k].episodes)[j].id >> :
              j \in { n \in 1..Len(AllEps(feed[k].episodes)) : GroupSize(k, n) >= 2 } } :
            k \in SeriesLookedAt }

\* <<series, (season, episode number)>> of the groups of two or more
GroupsOfSeveral ==
    UNION { { << k, KeyOf(AllEps(feed[k].episodes)[j]) >> :
              j \in { n \in 1..Len(AllEps(feed[k].episodes)) : GroupSize(k, n) >= 2 } } :
            k \in SeriesLookedAt }

VerdictsPrinted ==
    Cardinality({ k \in 1..Len(out) :
                    out[k] \in {"all_streams_identical", "streams_different"} })

\* C5 as stated: for every group of two or more streams of one (season,
\* episode number) analyze_provider_raw.py decides whether the streams are the
\* same content or different renditions.
C5_Original ==
    RawDone => VerdictsPrinted = Cardinality(GroupsOfSeveral)

\* C5 amended: analyze_provider_raw.py holds no stream-equivalence comparison.
\* For every group of two or more streams of one (season, episode number) in
\* the series it looks at it checks each stream once, reports it valid or
\* broken and counts the group; it never decides same or different.
C5_HealthOnly ==
    RawDone =>
        /\ { << health[k].series, health[k].stream_id >> : k \in 1..Len(health) }
             = StreamsInGroups
        /\ Len(health) = Cardinality(StreamsInGroups)
        /\ \A k \in 1..Len(health) : health[k].is_valid \in BOOLEAN
        /\ Cardinality({ k \in 1..Len(out) : out[k] \in {"status_valid", "status_broken"} })
             = Len(health)
        /\ duplicates_found = Cardinality(GroupsOfSeveral)
        /\ verdict = "none"
        /\ VerdictsPrinted = 0

\* two groups were reported, with a valid and a broken stream among them
C5_Witness ==
    /\ RawDone
    /\ duplicates_found >= 2
    /\ \E k, l \in 1..Len(health) : health[k].is_valid /\ ~health[l].is_valid

-----------------------------------------------------------------------------
(* Properties of the data store and of test_episode_deduplication *)

AfterBatch ==
    /\ script = "test_episode_deduplication"
    /\ pc \in {"verify", "done"}
    /\ account # <<>>

-----------------------------------------------------------------------------
(* Properties of main of compare_streams.py *)

\* main has printed its summary
MainSummarised ==
    /\ script = "main"
    /\ pc = "done"
    /\ \E k \in 1..Len(out) : out[k] = "overall_summary"

\* number of analysed episodes whose streams were compared and found different
ComparedAndDifferent ==
    Cardinality({ k \in 1..Len(out) : out[k] = "streams_different" })

\* C11: the number printed as 'Episodes with DIFFERENT streams' is the number
\* of analysed episodes whose streams were compared (two or more successful
\* probes) and found different, and the message about legitimate quality
\* variants is printed only if there is such an episode.
C11_DifferentCount ==
    MainSummarised =>
        /\ different_count = ComparedAndDifferent
        /\ (\E k \in 1..Len(out) : out[k] = "legitimate_quality_variants")
             => ComparedAndDifferent >= 1

-----------------------------------------------------------------------------
(* Properties of compare_streams over all the fields of the metadata *)

\* resolution string and bitrate of the successful probes, in probe order
ResolutionAndBitrate ==
    [ k \in 1..Len(SuccessfulAnswers) |->
        LET video == FirstOfType(SuccessfulAnswers[k].streams, "video", 1) IN
        << video.width, video.height, SuccessfulAnswers[k].bit_rate >> ]

-----------------------------------------------------------------------------
(* Properties of the counts of test_episode_deduplication *)

TestDone ==
    /\ script = "test_episode_deduplication"
    /\ pc = "done"
    /\ account # <<>>

\* the relations of the five stream ids that the call created: the account
\* had no relation of that stream id before
RelationsTheCallCreated ==
    { r \in db_relations :
        /\ r.m3u_account = account[1]
        /\ r.stream_id \in {78025, 78026, 78027, 78028, 78029}
        /\ \A b \in db_before[3] :
             ~(b.m3u_account = r.m3u_account /\ b.stream_id = r.stream_id) }

\* the S09E02 Episodes of the series that the call created
EpisodesTheCallCreated ==
    { e \in db_episodes \ db_before[2] :
        e.series = series[1] /\ e.season_number = 9 /\ e.episode_number = 2 }

\* C13: relations_created is the number of relations the call of
\* batch_process_episodes created for the five stream ids, whatever relations
\* the account had before; episodes_created is the number of S09E02 Episodes
\* it created; the test returns True exactly when the call created one Episode
\* and five relations that all point to it.
C13_CountsWhatWasCreated ==
    TestDone =>
        /\ relations_created = Cardinality(RelationsTheCallCreated)
        /\ episodes_created = Cardinality(EpisodesTheCallCreated)
        /\ ret[1] <=> /\ Cardinality(EpisodesTheCallCreated) = 1
                      /\ Cardinality(RelationsTheCallCreated) = 5
                      /\ \A r \in RelationsTheCallCreated :
                           \A e \in EpisodesTheCallCreated : r.episode = e.id

-----------------------------------------------------------------------------
(* Properties of the verdict over the order of the probes *)

\* the orders in which n probes can be made
Reorderings(n) ==
    { p \in [1..n -> 1..n] : \A a, b \in 1..n : a # b => p[a] # p[b] }

\* C14: for the successful probe results of one episode, the verdict of
\* analyze_episode_streams is the same in whatever order the streams are
\* probed, that is, whichever probe becomes the baseline.
C14_OrderIndependent ==
    (AnalyzeReturned /\ Len(Successful) >= 2) =>
        \A p \in Reorderings(Len(Successful)) :
            LET reordered == [ k \in 1..Len(Successful) |-> Successful[p[k]] ]
            IN IdenticalLoop(reordered, Baseline(reordered), 1).all_identical
                 <=> (verdict = "identical")

-----------------------------------------------------------------------------
(* Properties of ffprobe_stream *)

ProbeReturned ==
    /\ script \in {"ffprobe_stream", "verify_ffprobe_stream"}
    /\ pc = "done"

\* positions of the streams of a type in the answer
PositionsOf(type) ==
    { k \in 1..Len(probeOut[1].streams) : probeOut[1].streams[k].codec_type = type }

FirstPosition(type) == CHOOSE k \in PositionsOf(type) : \A l \in PositionsOf(type) : k <= l

\* the probe cannot give metadata: the process timed out or failed, its output
\* does not parse or convert, or it lists no video stream
ProbeUnusable ==
    LET answer == probeOut[1] IN
    \/ answer.timed_out
    \/ answer.returncode # 0
    \/ ~answer.parses
    \/ PositionsOf("video") = {}
    \/ ~answer.bit_rate_is_number
    \/ answer.streams[FirstPosition("video")].r_frame_rate[2] = 0

FieldsOfRecord ==
    {"resolution", "width", "height", "codec", "bitrate", "duration", "fps"}
      \cup (IF script = "ffprobe_stream" THEN {"file_size"} ELSE {})

\* C15: ffprobe_stream of either script lets no error reach its caller: it
\* returns None when the process exits with a non-zero code, times out, gives
\* output that cannot be parsed or converted, or lists no video stream; it
\* returns a metadata record only when the process exited with code 0 and a
\* video stream was found, and that record is never partial.
C15_NoErrorEscapes ==
    ProbeReturned =>
        /\ ret[1] # Raised
        /\ ProbeUnusable => ret[1] = None
        /\ ret[1] # None =>
             /\ probeOut[1].returncode = 0
             /\ ~probeOut[1].timed_out
             /\ PositionsOf("video") # {}
             /\ FieldsOfRecord \subseteq DOMAIN ret[1]
             /\ DOMAIN ret[1] \subseteq FieldsOfRecord \cup {"audio_codec", "audio_channels"}
        /\ ~ProbeUnusable => ret[1] # None

\* the process exited with code 0 and listed a video stream, but its output
\* could not be parsed or converted, and None came back
C15_Witness ==
    /\ ProbeReturned
    /\ probeOut[1].returncode = 0
    /\ ~probeOut[1].timed_out
    /\ PositionsOf("video") # {}
    /\ (~probeOut[1].parses \/ ~probeOut[1].bit_rate_is_number)
    /\ ret[1] = None

\* C16: the video fields of the metadata come from the first stream of type
\* video in the order of the answer and the audio fields from the first stream
\* of type audio; a later stream of the type never replaces it, and there are
\* no audio fields when there is no audio stream.
C16_FirstVideoFirstAudio ==
    (ProbeReturned /\ ret[1] # None) =>
        LET metadata == ret[1]
            video == probeOut[1].streams[FirstPosition("video")]
        IN /\ metadata.width = video.width
           /\ metadata.height = video.height
           /\ metadata.resolution = ToString(video.width) \o "x" \o ToString(video.height)
           /\ metadata.codec = video.codec_name
           /\ metadata.fps * video.r_frame_rate[2] <= video.r_frame_rate[1] * 1000
           /\ (metadata.fps + 1) * video.r_frame_rate[2] > video.r_frame_rate[1] * 1000
           /\ IF PositionsOf("audio") = {}
              THEN /\ "audio_codec" \notin DOMAIN metadata
                   /\ "audio_channels" \notin DOMAIN metadata
              ELSE LET audio == probeOut[1].streams[FirstPosition("audio")] IN
                   /\ "audio_codec" \in DOMAIN metadata
                   /\ "audio_channels" \in DOMAIN metadata
                   /\ metadata.audio_codec = audio.codec_name
                   /\ metadata.audio_channels = audio.channels

\* two video streams and two audio streams that differ, and metadata came back
C16_Witness ==
    /\ ProbeReturned
    /\ ret[1] # None
    /\ \E k, l \in PositionsOf("video") :
         probeOut[1].streams[k].width # probeOut[1].streams[l].width
    /\ Len(probeOut[1].streams) >= 3
    /\ PositionsOf("audio") # {}

====
